---- MODULE Spec2Model ----
(***************************************************************************)
(* Smart-ToDo: an Express/Mongoose REST API.  Accounts are registered and  *)
(* logged in under /api/auth; tasks are created, listed, updated and       *)
(* deleted under /api/tasks behind the JWT gate `authenticate`.            *)
(*                                                                         *)
(* The state is the document store (users, tasks), the wall clock, the     *)
(* bearer tokens clients hold, the requests suspended at an await between  *)
(* two store operations, and the last response sent.                       *)
(***************************************************************************)
EXTENDS Integers, Sequences, FiniteSets, Bags, TLC

\* ------------------------------------------------------------- bounds
\* ObjectIds handed out to User documents: 1..MaxUsers
MaxUsers == 2
\* ObjectIds handed out to Task documents: 1..MaxTasks
MaxTasks == 2
\* the clock runs from day 0 to day MaxTime
MaxTime == 8
\* tokens the clients keep of those register and login send them
MaxTokens == 2
\* registrations suspended between findOne and save
MaxPendingReg == 2
\* updates suspended between findOne and save
MaxPendingPut == 1

\* ------------------------------------------------- program constants
\* { expiresIn: '7d' }, in days
TokenTTL == 7
UsernameMin == 3
UsernameMax == 30
PasswordMin == 6
TitleMax == 200
DescriptionMax == 1000

JWT_SECRET == "your-secret-key-change-in-production"

\* a destructured field the JSON body does not carry
Undefined == "<undefined>"
\* no identity attached to the request / no :id in the path
NoUser == 0
NoId == 0

\* ------------------------------------------------------------ inputs
RawUsernames == {"alice", " bob ", "al"}
RawEmails == {"A@x.io", "b@x.io", "nope"}
\* the passwords registrations are tried with: one long enough, one too short
NewPasswords == {"secret1", "abc"}
\* the passwords logins are tried with
TriedPasswords == {"secret1", "hunter22", ""}
Salts == {"s1", "s2"}
RawTitles == {Undefined, " Buy milk ", "Call mom"}
RawDescriptions == {Undefined, "", " 2 litres "}
\* the JSON text of the body's completed: true, 'false'
RawCompleted == {Undefined, "true", "'false'"}
\* days the clock may jump in one step
TickDays == {4}

\* ------------------------------------------- sanitizers and validators
\* String.prototype.trim / express-validator .trim(), on the inputs above
Trim(s) ==
  CASE s = " bob " -> "bob"
    [] s = " Buy milk " -> "Buy milk"
    [] s = "   " -> ""
    [] s = " 2 litres " -> "2 litres"
    [] OTHER -> s

\* express-validator .isEmail()
IsEmail(s) == s \in {"a@x.io", "A@x.io", "b@x.io"}

\* express-validator .normalizeEmail(): lower-cases the address
NormalizeEmail(s) ==
  CASE s = "A@x.io" -> "a@x.io"
    [] OTHER -> s

\* express-validator .isBoolean(): true, false, 'true', 'false', '1', '0'
IsBoolean(v) == v \in {"true", "false", "'true'", "'false'", "'1'", "'0'", "1", "0"}

\* Mongoose's cast of a value assigned to a Boolean path
CastBoolean(v) ==
  CASE v \in {"true", "'true'", "'1'", "1"} -> TRUE
    [] OTHER -> FALSE

\* JavaScript's  description || ''
OrEmpty(description) == IF description \in {Undefined, ""} THEN "" ELSE description

\* completed || true
OrTrue(completed) == IF completed \in {Undefined, "false", "0"} THEN "true" ELSE completed

\* JavaScript's  completed || false
OrFalse(completed) == IF completed \in {Undefined, "false", "0"} THEN "false" ELSE completed

\* ------------------------------------------------------ password hasher
\* bcrypt.hash(password, salt): the digest carries its salt
bcryptHash(password, salt) == [bcrypt |-> salt, of |-> password]

\* a comparison that re-hashes with a salt of its own
comparePasswordOwnSalt(digest, candidatePassword) ==
  bcryptHash(candidatePassword, "s1") = digest

\* bcrypt.compare(candidate, digest): re-hash with the digest's salt
comparePassword(digest, candidatePassword) ==
  bcryptHash(candidatePassword, digest.bcrypt) = digest

\* --------------------------------------------------- session token codec
\* jwt.sign({ userId }, JWT_SECRET, { expiresIn: '7d' }) at time now
generateToken(userId, now) ==
  [userId |-> userId, iat |-> now, exp |-> now + TokenTTL, sig |-> JWT_SECRET]

\* a string that is no JWT
GarbageToken == [userId |-> NoUser, iat |-> 0, exp |-> 0, sig |-> "garbage"]

\* a token of an account removed from the store before the server started
GhostUser == MaxUsers + 1
StaleToken == generateToken(GhostUser, 0)

\* the same payload signed with another key
Forge(token) == [token EXCEPT !.sig = "attacker-key"]

\* jwt.verify(token, JWT_SECRET, { ignoreExpiration: true })
jwtVerifyIgnoreExpiration(token, now) == token.sig = JWT_SECRET

\* jwt.verify(token, JWT_SECRET): the signature, then the expiry
jwtVerify(token, now) == token.sig = JWT_SECRET /\ now < token.exp

VARIABLES users, tasks, taskSeq, clock, tokens, pendingReg, pendingPut, last

vars == <<users, tasks, taskSeq, clock, tokens, pendingReg, pendingPut, last>>

\* ------------------------------------------------- requests, responses
\* the Authorization header of a request
NoHeader == [scheme |-> "none", token |-> GarbageToken]
Basic == [scheme |-> "Basic", token |-> GarbageToken]
Bearer(token) == [scheme |-> "Bearer", token |-> token]

\* a JSON body that carries none of title, description, completed
EmptyBody == [title |-> Undefined, description |-> Undefined, completed |-> Undefined]

\* req: the Authorization header, the :id of the path, the JSON body
Request(authHeader, id, body) == [header |-> authHeader, id |-> id, body |-> body]

\* a response, with the request it answers and the identity the gate attached
Response(op, req, auth, status, body) ==
  [op |-> op, req |-> req, auth |-> auth, status |-> status, body |-> body]

\* the handler is suspended at an await: nothing has been sent
Pending(op, req, auth) == Response(op, req, auth, 0, [pending |-> TRUE])

\* the step was no request
NoResponse ==
  Response("none", Request(NoHeader, NoId, EmptyBody), NoUser, 0, [pending |-> FALSE])

\* the whole User document, password included
WholeUser(id, doc) ==
  [id |-> id, username |-> doc.username, email |-> doc.email,
   password |-> doc.password]

\* the public projection { id, username, email } of a User document
PublicUser(id, doc) == [id |-> id, username |-> doc.username, email |-> doc.email]

\* the client keeps a token it was sent while it has room for it
Keep(token) ==
  IF Cardinality(tokens) < MaxTokens THEN tokens \cup {token} ELSE tokens

\* --------------------------------------------------- central error handler
\* the errors the handlers pass to next(error)
DuplicateKey(field) == [name |-> "MongoServerError", code |-> 11000, field |-> field,
                        message |-> "E11000 duplicate key error"]

Capitalize(field) ==
  CASE field = "email" -> "Email"
    [] field = "username" -> "Username"
    [] OTHER -> field

errorHandler(err, nodeEnv) ==
  LET base == [message |-> err.message, statusCode |-> 0]
      e1 == IF err.name = "CastError"
              THEN [message |-> "Resource not found", statusCode |-> 404] ELSE base
      e2 == IF err.code = 11000
              THEN [message |-> Capitalize(err.field) \o " already exists",
                    statusCode |-> 400]
              ELSE e1
      e3 == IF err.name = "ValidationError"
              THEN [message |-> err.message, statusCode |-> 400] ELSE e2
      e4 == IF err.name = "JsonWebTokenError"
              THEN [message |-> "Invalid token", statusCode |-> 401] ELSE e3
      e5 == IF err.name = "TokenExpiredError"
              THEN [message |-> "Token expired", statusCode |-> 401] ELSE e4
      status == IF e5.statusCode = 0 THEN 500 ELSE e5.statusCode
      text == IF e5.message = "" THEN "Server Error" ELSE e5.message
  IN  [status |-> status,
       body |-> IF nodeEnv = "development"
                  THEN [success |-> FALSE, error |-> text, stack |-> "stack"]
                  ELSE [success |-> FALSE, error |-> text]]

\* process.env.NODE_ENV of the running server
NODE_ENV == "production"

\* ------------------------------------------------------------- register
ValidateRegister(body) ==
  (IF Len(Trim(body.username)) >= UsernameMin /\ Len(Trim(body.username)) <= UsernameMax
     THEN <<>> ELSE <<"Username must be between 3 and 30 characters">>)
  \o (IF IsEmail(body.email) THEN <<>> ELSE <<"Please provide a valid email address">>)
  \o (IF Len(body.password) >= PasswordMin
        THEN <<>> ELSE <<"Password must be at least 6 characters long">>)

\* the documents User.findOne({ $or: [{ email }, { username }] }) may return
ExistingUsers(email, username) ==
  {id \in DOMAIN users : users[id].email = email \/ users[id].username = username}

\* POST /api/auth/register up to the await of user.save()
RegisterCheck(body) ==
  LET errors == ValidateRegister(body)
      username == Trim(body.username)
      email == NormalizeEmail(body.email)
      req == Request(NoHeader, NoId, body)
  IN  /\ IF errors # <<>>
           THEN /\ last' = Response("register", req, NoUser, 400,
                             [error |-> "Validation failed", details |-> errors])
                /\ UNCHANGED pendingReg
           ELSE IF ExistingUsers(email, username) # {}
             THEN /\ \E existingUser \in ExistingUsers(email, username) :
                       last' = Response("register", req, NoUser, 400,
                         [error |-> "User already exists",
                          message |-> IF users[existingUser].email = email
                                        THEN "Email is already registered"
                                        ELSE "Username is already taken"])
                  /\ UNCHANGED pendingReg
             ELSE /\ BagCardinality(pendingReg) < MaxPendingReg
                  /\ pendingReg' = pendingReg (+) SetToBag(
                       {[username |-> username, email |-> email,
                         password |-> body.password]})
                  /\ last' = Pending("register", req, NoUser)
      /\ UNCHANGED <<users, tasks, taskSeq, clock, tokens, pendingPut>>

\* a collection without unique indexes
NoUniqueIndex(email, username) == {}

\* the unique indexes a new document with this email and username violates
Violated(email, username) ==
  {f \in {"email", "username"} :
     \E id \in DOMAIN users : users[id][f] = (IF f = "email" THEN email ELSE username)}

\* new User(...), the pre('save') hook, the insert, and the response
RegisterSave(r, salt) ==
  /\ BagIn(r, pendingReg)
  /\ pendingReg' = pendingReg (-) SetToBag({r})
  /\ IF Violated(r.email, r.username) # {}
       THEN /\ \E field \in Violated(r.email, r.username) :
                 LET res == errorHandler(DuplicateKey(field), NODE_ENV)
                 IN  last' = Response("register", Request(NoHeader, NoId, r), NoUser,
                                      res.status, res.body)
            /\ UNCHANGED <<users, tokens>>
       ELSE LET id == Cardinality(DOMAIN users) + 1
                token == generateToken(id, clock)
            IN  /\ id <= MaxUsers
                /\ users' = [i \in DOMAIN users \cup {id} |->
                              IF i = id
                                THEN [username |-> r.username, email |-> r.email,
                                      password |-> bcryptHash(r.password, salt)]
                                ELSE users[i]]
                /\ tokens' = Keep(token)
                /\ last' = Response("register", Request(NoHeader, NoId, r), NoUser, 201,
                     [message |-> "User registered successfully",
                      token |-> token,
                      user |-> PublicUser(id, r)])
  /\ UNCHANGED <<tasks, taskSeq, clock, pendingPut>>

\* ---------------------------------------------------------------- login
ValidateLogin(body) ==
  (IF IsEmail(body.email) THEN <<>> ELSE <<"Please provide a valid email address">>)
  \o (IF body.password # "" THEN <<>> ELSE <<"Password is required">>)

\* a body that tells the caller no user has the email
UserNotFoundTelling == [error |-> "Invalid credentials",
                        message |-> "No account with this email"]

\* the body sent when no user has the email
UserNotFound == [error |-> "Invalid credentials",
                 message |-> "Email or password is incorrect"]

\* the body sent when the password does not match
PasswordInvalid == [error |-> "Invalid credentials",
                    message |-> "Email or password is incorrect"]

\* the response of POST /api/auth/login
LoginResponse(body) ==
  LET errors == ValidateLogin(body)
      email == NormalizeEmail(body.email)
      found == {id \in DOMAIN users : users[id].email = email}
      req == Request(NoHeader, NoId, body)
  IN  IF errors # <<>>
        THEN Response("login", req, NoUser, 400,
               [error |-> "Validation failed", details |-> errors])
      ELSE IF found = {}
        THEN Response("login", req, NoUser, 401, UserNotFound)
      ELSE LET user == CHOOSE id \in found : TRUE
           IN  IF ~comparePassword(users[user].password, body.password)
                 THEN Response("login", req, NoUser, 401, PasswordInvalid)
                 ELSE Response("login", req, NoUser, 200,
                        [message |-> "Login successful",
                         token |-> generateToken(user, clock),
                         user |-> PublicUser(user, users[user])])

Login(body) ==
  /\ last' = LoginResponse(body)
  /\ tokens' = IF last'.status = 200 THEN Keep(last'.body.token) ELSE tokens
  /\ UNCHANGED <<users, tasks, taskSeq, clock, pendingReg, pendingPut>>

\* ------------------------------------------------------ identity gate
Unauthorized(message) ==
  [ok |-> FALSE, userId |-> NoUser, status |-> 401,
   body |-> [error |-> "Unauthorized", message |-> message]]

\* a gate that decodes the token and never verifies it
authenticateUnverified(authHeader) ==
  IF authHeader.scheme # "Bearer"
    THEN Unauthorized("No token provided. Please include a Bearer token in the Authorization header.")
  ELSE IF authHeader.token.userId \notin DOMAIN users
    THEN Unauthorized("User no longer exists")
  ELSE [ok |-> TRUE, userId |-> authHeader.token.userId, status |-> 0,
        body |-> [pending |-> TRUE]]

\* the gate every /api/tasks route passes first
authenticate(authHeader) ==
  IF authHeader.scheme # "Bearer"
    THEN Unauthorized("No token provided. Please include a Bearer token in the Authorization header.")
  ELSE IF ~jwtVerify(authHeader.token, clock)
    THEN Unauthorized("Invalid or expired token")
  ELSE IF authHeader.token.userId \notin DOMAIN users
    THEN Unauthorized("User no longer exists")
  ELSE [ok |-> TRUE, userId |-> authHeader.token.userId, status |-> 0,
        body |-> [pending |-> TRUE]]

\* ------------------------------------------------------------ task store
\* a Task document as res.json() serialises it
TaskJson(id, doc) ==
  [_id |-> id, title |-> doc.title, description |-> doc.description,
   completed |-> doc.completed, user |-> doc.user, updatedAt |-> doc.updatedAt]

\* ids in descending order: .sort({ createdAt: -1 }), a Task's createdAt being
\* the time its id was handed out
RECURSIVE NewestFirst(_)
NewestFirst(ids) ==
  IF ids = {} THEN <<>>
  ELSE LET newest == CHOOSE i \in ids : \A j \in ids : j <= i
       IN  <<newest>> \o NewestFirst(ids \ {newest})

\* Task.find({ user: userId }).sort({ createdAt: -1 })
FindTasks(userId) ==
  LET ids == NewestFirst({id \in DOMAIN tasks : tasks[id].user = userId})
  IN  [k \in 1..Len(ids) |-> TaskJson(ids[k], tasks[ids[k]])]

\* a path parameter that is no ObjectId ("not-a-valid-id")
BadId == -1

\* a filter that leaves the owner out: { _id: req.params.id }
MatchesAnyOwner(id, userId) == id \in DOMAIN tasks

\* the filter { _id: req.params.id, user: req.user.userId } matches a document
Matches(id, userId) == id \in DOMAIN tasks /\ tasks[id].user = userId

InvalidTaskId == [error |-> "Invalid task ID",
                  message |-> "The provided task ID is not valid"]

\* ------------------------------------------------------ POST /api/tasks
ValidateCreate(body) ==
  (IF Trim(OrEmpty(body.title)) = "" THEN <<"Task title is required">>
   ELSE IF Len(Trim(body.title)) > TitleMax
     THEN <<"Task title cannot exceed 200 characters">> ELSE <<>>)
  \o (IF body.description # Undefined /\ Len(Trim(body.description)) > DescriptionMax
        THEN <<"Task description cannot exceed 1000 characters">> ELSE <<>>)
  \o (IF body.completed # Undefined /\ ~IsBoolean(body.completed)
        THEN <<"Completed must be a boolean value">> ELSE <<>>)

\* an owner read from the body when it carries one:  user: req.body.user
TaskOwnerFromBody(userId, body) ==
  IF "user" \in DOMAIN body THEN body.user ELSE userId

\* the owner of a new task:  user: req.user.userId
TaskOwner(userId, body) == userId

CreateTask(authHeader, body) ==
  LET gate == authenticate(authHeader)
      errors == ValidateCreate(body)
      id == taskSeq + 1
      req == Request(authHeader, NoId, body)
  IN  /\ IF ~gate.ok
           THEN /\ last' = Response("POST", req, NoUser, gate.status, gate.body)
                /\ UNCHANGED <<tasks, taskSeq>>
         ELSE IF errors # <<>>
           THEN /\ last' = Response("POST", req, gate.userId, 400,
                             [error |-> "Validation failed", details |-> errors])
                /\ UNCHANGED <<tasks, taskSeq>>
         ELSE LET doc == [title |-> Trim(body.title),
                          description |-> OrEmpty(Trim(body.description)),
                          completed |-> CastBoolean(OrFalse(body.completed)),
                          user |-> TaskOwner(gate.userId, body),
                          updatedAt |-> clock]
              IN  /\ id <= MaxTasks
                  /\ tasks' = [i \in DOMAIN tasks \cup {id} |->
                                IF i = id THEN doc ELSE tasks[i]]
                  /\ taskSeq' = id
                  /\ last' = Response("POST", req, gate.userId, 201,
                       [message |-> "Task created successfully",
                        task |-> [TaskJson(id, doc) EXCEPT
                                    !.user = [_id |-> gate.userId,
                                              username |-> users[gate.userId].username,
                                              email |-> users[gate.userId].email]]])
      /\ UNCHANGED <<users, clock, tokens, pendingReg, pendingPut>>

\* ------------------------------------------------------- GET /api/tasks
GetTasks(authHeader) ==
  LET gate == authenticate(authHeader)
      req == Request(authHeader, NoId, EmptyBody)
  IN  /\ last' = IF ~gate.ok
                   THEN Response("GET", req, NoUser, gate.status, gate.body)
                   ELSE Response("GET", req, gate.userId, 200,
                          [message |-> "Tasks retrieved successfully",
                           count |-> Len(FindTasks(gate.userId)),
                           tasks |-> FindTasks(gate.userId)])
      /\ UNCHANGED <<users, tasks, taskSeq, clock, tokens, pendingReg, pendingPut>>

\* --------------------------------------------------- PUT /api/tasks/:id
ValidateUpdate(body) ==
  (IF body.title = Undefined THEN <<>>
   ELSE IF Trim(body.title) = "" THEN <<"Task title cannot be empty">>
   ELSE IF Len(Trim(body.title)) > TitleMax
     THEN <<"Task title cannot exceed 200 characters">> ELSE <<>>)
  \o (IF body.description # Undefined /\ Len(Trim(body.description)) > DescriptionMax
        THEN <<"Task description cannot exceed 1000 characters">> ELSE <<>>)
  \o (IF body.completed # Undefined /\ ~IsBoolean(body.completed)
        THEN <<"Completed must be a boolean value">> ELSE <<>>)

\* assignments guarded by truthiness:  if (x) task.x = x
AssignTruthy(doc, body) ==
  [doc EXCEPT
     !.title = IF body.title \notin {Undefined, ""} THEN Trim(body.title) ELSE @,
     !.description = IF body.description \notin {Undefined, ""}
                       THEN Trim(body.description) ELSE @,
     !.completed = IF body.completed \notin {Undefined, "false", "0"}
                     THEN CastBoolean(body.completed) ELSE @]

\* the assignments  if (x !== undefined) task.x = x  on the document read
Assign(doc, body) ==
  [doc EXCEPT
     !.title = IF body.title # Undefined THEN Trim(body.title) ELSE @,
     !.description = IF body.description # Undefined THEN Trim(body.description) ELSE @,
     !.completed = IF body.completed # Undefined THEN CastBoolean(body.completed) ELSE @]

\* the paths Mongoose marks modified: those whose value changed
Modified(before, after) ==
  {f \in {"title", "description", "completed"} : before[f] # after[f]}

\* PUT /api/tasks/:id up to the await of task.save()
UpdateFind(authHeader, id, body) ==
  LET gate == authenticate(authHeader)
      errors == ValidateUpdate(body)
      req == Request(authHeader, id, body)
  IN  /\ IF ~gate.ok
           THEN /\ last' = Response("PUT", req, NoUser, gate.status, gate.body)
                /\ UNCHANGED pendingPut
         ELSE IF errors # <<>>
           THEN /\ last' = Response("PUT", req, gate.userId, 400,
                             [error |-> "Validation failed", details |-> errors])
                /\ UNCHANGED pendingPut
         ELSE IF id = BadId
           THEN /\ last' = Response("PUT", req, gate.userId, 400, InvalidTaskId)
                /\ UNCHANGED pendingPut
         ELSE IF ~Matches(id, gate.userId)
           THEN /\ last' = Response("PUT", req, gate.userId, 404,
                     [error |-> "Task not found",
                      message |-> "Task does not exist or you do not have permission to access it"])
                /\ UNCHANGED pendingPut
         ELSE /\ BagCardinality(pendingPut) < MaxPendingPut
              /\ pendingPut' = pendingPut (+) SetToBag(
                   {[req |-> req, auth |-> gate.userId,
                     task |-> Assign(tasks[id], body),
                     modified |-> Modified(tasks[id], Assign(tasks[id], body))]})
              /\ last' = Pending("PUT", req, gate.userId)
      /\ UNCHANGED <<users, tasks, taskSeq, clock, tokens, pendingReg>>

DocumentNotFound == [name |-> "DocumentNotFoundError", code |-> 0, field |-> "",
                     message |-> "No document found for query"]

\* a save that writes the whole document back, inserting it when it is gone
UpdateSaveUpsert(p) ==
  /\ BagIn(p, pendingPut)
  /\ pendingPut' = pendingPut (-) SetToBag({p})
  /\ tasks' = [i \in DOMAIN tasks \cup {p.req.id} |->
                 IF i = p.req.id THEN p.task ELSE tasks[i]]
  /\ last' = Response("PUT", p.req, p.auth, 200,
                      [message |-> "Task updated successfully",
                       task |-> TaskJson(p.req.id, p.task)])
  /\ UNCHANGED <<users, taskSeq, clock, tokens, pendingReg>>

\* task.save() of a document read earlier, and the response
UpdateSave(p) ==
  /\ BagIn(p, pendingPut)
  /\ pendingPut' = pendingPut (-) SetToBag({p})
  /\ IF p.req.id \notin DOMAIN tasks
       THEN LET res == errorHandler(DocumentNotFound, NODE_ENV)
            IN  /\ last' = Response("PUT", p.req, p.auth, res.status, res.body)
                /\ UNCHANGED tasks
       ELSE LET saved == IF p.modified = {} THEN p.task
                         ELSE [p.task EXCEPT !.updatedAt = clock]
            IN  /\ tasks' = [tasks EXCEPT ![p.req.id] =
                     [f \in DOMAIN @ |->
                        IF f \in p.modified \/ (f = "updatedAt" /\ p.modified # {})
                          THEN saved[f] ELSE @[f]]]
                /\ last' = Response("PUT", p.req, p.auth, 200,
                     [message |-> "Task updated successfully",
                      task |-> TaskJson(p.req.id, saved)])
  /\ UNCHANGED <<users, taskSeq, clock, tokens, pendingReg>>

\* ------------------------------------------------ DELETE /api/tasks/:id
DeleteTask(authHeader, id) ==
  LET gate == authenticate(authHeader)
      req == Request(authHeader, id, EmptyBody)
  IN  /\ IF ~gate.ok
           THEN /\ last' = Response("DELETE", req, NoUser, gate.status, gate.body)
                /\ UNCHANGED tasks
         ELSE IF id = BadId
           THEN /\ last' = Response("DELETE", req, gate.userId, 400, InvalidTaskId)
                /\ UNCHANGED tasks
         ELSE IF ~Matches(id, gate.userId)
           THEN /\ last' = Response("DELETE", req, gate.userId, 404,
                     [error |-> "Task not found",
                      message |-> "Task does not exist or you do not have permission to delete it"])
                /\ UNCHANGED tasks
         ELSE /\ tasks' = [i \in DOMAIN tasks \ {id} |-> tasks[i]]
              /\ last' = Response("DELETE", req, gate.userId, 200,
                   [message |-> "Task deleted successfully",
                    task |-> TaskJson(id, tasks[id])])
      /\ UNCHANGED <<users, taskSeq, clock, tokens, pendingReg, pendingPut>>

\* ------------------------------------------------------- failing store
\* the error a store operation rejects with when MongoDB is unreachable
StoreUnreachable == [name |-> "MongooseServerSelectionError", code |-> 0, field |-> "",
                     message |-> "connect ECONNREFUSED 127.0.0.1:27017"]

\* POST /api/auth/login when User.findOne rejects: catch, next(error)
LoginStoreDown(body) ==
  LET res == errorHandler(StoreUnreachable, NODE_ENV)
  IN  /\ ValidateLogin(body) = << >>
      /\ last' = Response("login", Request(NoHeader, NoId, body), NoUser,
                          res.status, res.body)
      /\ UNCHANGED <<users, tasks, taskSeq, clock, tokens, pendingReg, pendingPut>>

\* ------------------------------------------------------- unknown route
\* the catch-all mounted after the routers
RouteNotFound ==
  /\ last' = Response("unknown", Request(NoHeader, NoId, EmptyBody), NoUser, 404,
                      [error |-> "Route not found", path |-> "/api/nope"])
  /\ UNCHANGED <<users, tasks, taskSeq, clock, tokens, pendingReg, pendingPut>>

\* ---------------------------------------------------------------- clock
Tick(days) ==
  /\ clock + days <= MaxTime
  /\ clock' = clock + days
  /\ last' = NoResponse
  /\ UNCHANGED <<users, tasks, taskSeq, tokens, pendingReg, pendingPut>>

\* ------------------------------------------------------------ requests
RegisterBodies == [username : RawUsernames, email : RawEmails, password : NewPasswords]
LoginBodies == [email : RawEmails, password : TriedPasswords]
TitleOnly == [EmptyBody EXCEPT !.title = " Buy milk "]
BlankTitle == [EmptyBody EXCEPT !.title = "   "]
\* an empty body, a title alone, a completed alone, a blank title
FewBodies == {EmptyBody, TitleOnly, [EmptyBody EXCEPT !.completed = "true"], BlankTitle}
\* every choice of fields present, and a completed that is no boolean
UpdateBodies ==
  [title : RawTitles, description : RawDescriptions, completed : RawCompleted]
  \cup {[EmptyBody EXCEPT !.completed = "'maybe'"]}

\* the Authorization headers a client can send
Headers ==
  {NoHeader, Basic, Bearer(GarbageToken), Bearer(StaleToken)}
  \cup {Bearer(t) : t \in tokens} \cup {Bearer(Forge(t)) : t \in tokens}

\* a request the gate rejects is answered before its body is read
BodiesFor(authHeader, bodies) ==
  IF authenticate(authHeader).ok THEN bodies ELSE {EmptyBody}

PathIds == 1..MaxTasks \cup {BadId}

\* the routes mounted under /api/tasks, behind the gate
TaskRoutes == {"POST", "GET", "PUT", "DELETE"}

\* alice and bob as their registrations stored them
Registered ==
  <<[username |-> "alice", email |-> "a@x.io", password |-> bcryptHash("secret1", "s1")],
    [username |-> "bob", email |-> "b@x.io", password |-> bcryptHash("hunter22", "s2")]>>

\* an empty store
Init ==
  /\ users = << >>
  /\ tasks = << >>
  /\ taskSeq = 0
  /\ clock = 0
  /\ tokens = {}
  /\ pendingReg = EmptyBag
  /\ pendingPut = EmptyBag
  /\ last = NoResponse

\* day 0: alice's client holds the token her registration returned
InitSession ==
  /\ users = Registered
  /\ tasks = << >>
  /\ taskSeq = 0
  /\ clock = 0
  /\ tokens = {generateToken(1, 0)}
  /\ pendingReg = EmptyBag
  /\ pendingPut = EmptyBag
  /\ last = NoResponse

\* day MaxTime: alice still holds the token of her registration on day 0, and
\* both clients hold a token of today's login
InitTasks ==
  /\ users = Registered
  /\ tasks = << >>
  /\ taskSeq = 0
  /\ clock = MaxTime
  /\ tokens = {generateToken(1, 0), generateToken(1, MaxTime), generateToken(2, MaxTime)}
  /\ pendingReg = EmptyBag
  /\ pendingPut = EmptyBag
  /\ last = NoResponse

\* a task as POST /api/tasks stores it from a body holding only a title
Fresh(userId, now) ==
  [title |-> "Buy milk", description |-> "", completed |-> FALSE,
   user |-> userId, updatedAt |-> now]

\* day 0: alice and bob have each created a task, and alice's client alone
\* holds a token
InitUpdate ==
  /\ users = Registered
  /\ tasks = <<Fresh(1, 0), Fresh(2, 0)>>
  /\ taskSeq = MaxTasks
  /\ clock = 0
  /\ tokens = {generateToken(1, 0)}
  /\ pendingReg = EmptyBag
  /\ pendingPut = EmptyBag
  /\ last = NoResponse

\* registration and login on every body, and tasks of one kind
NextAuth ==
  \/ \E body \in RegisterBodies : RegisterCheck(body)
  \/ \E r \in BagToSet(pendingReg), salt \in Salts : RegisterSave(r, salt)
  \/ \E body \in LoginBodies : Login(body)
  \/ \E h \in Headers : CreateTask(h, TitleOnly)

\* logins as the days pass, and each protected route on an empty body
NextSession ==
  \/ \E body \in LoginBodies : Login(body)
  \/ \E days \in TickDays : Tick(days)
  \/ \E h \in Headers : CreateTask(h, EmptyBody)
  \/ \E h \in Headers : GetTasks(h)
  \/ \E h \in Headers, id \in PathIds : UpdateFind(h, id, EmptyBody)
  \/ \E h \in Headers, id \in PathIds : DeleteTask(h, id)

\* the task routes of two clients, requests overlapping
Next ==
  \/ \E h \in Headers : \E body \in BodiesFor(h, FewBodies) : CreateTask(h, body)
  \/ \E h \in Headers : GetTasks(h)
  \/ \E h \in Headers, id \in PathIds :
       \E body \in BodiesFor(h, FewBodies) : UpdateFind(h, id, body)
  \/ \E p \in BagToSet(pendingPut) : UpdateSave(p)
  \/ \E h \in Headers, id \in PathIds : DeleteTask(h, id)

\* one client updating its task on every body as the days pass
NextUpdate ==
  \/ \E days \in TickDays : Tick(days)
  \/ \E h \in Headers, id \in PathIds :
       \E body \in BodiesFor(h, UpdateBodies) : UpdateFind(h, id, body)
  \/ \E p \in BagToSet(pendingPut) : UpdateSave(p)

\* one well-formed registration for alice, one for bob, one malformed
SomeRegisterBodies ==
  {[username |-> "alice", email |-> "A@x.io", password |-> "secret1"],
   [username |-> " bob ", email |-> "b@x.io", password |-> "secret1"],
   [username |-> "al", email |-> "nope", password |-> "abc"]}

\* a login that succeeds once alice is registered, a wrong password, an
\* unknown or malformed email
SomeLoginBodies ==
  {[email |-> "A@x.io", password |-> "secret1"],
   [email |-> "A@x.io", password |-> "hunter22"],
   [email |-> "nope", password |-> ""]}

\* bodies that also carry a user field naming bob
SpoofedCreate == [title |-> " Buy milk ", description |-> Undefined,
                  completed |-> Undefined, user |-> 2]
SpoofedUpdate == [title |-> Undefined, description |-> Undefined,
                  completed |-> "true", user |-> 2]

\* every endpoint of the server, on few bodies
NextAll ==
  \/ \E body \in SomeRegisterBodies : RegisterCheck(body)
  \/ \E r \in BagToSet(pendingReg) : RegisterSave(r, "s1")
  \/ \E body \in SomeLoginBodies : Login(body)
  \/ \E body \in SomeLoginBodies : LoginStoreDown(body)
  \/ \E h \in Headers : \E body \in BodiesFor(h, {SpoofedCreate, BlankTitle}) :
       CreateTask(h, body)
  \/ \E h \in Headers : GetTasks(h)
  \/ \E h \in Headers, id \in PathIds :
       \E body \in BodiesFor(h, {SpoofedUpdate, BlankTitle}) :
         UpdateFind(h, id, body)
  \/ \E p \in BagToSet(pendingPut) : UpdateSave(p)
  \/ \E h \in Headers, id \in PathIds : DeleteTask(h, id)
  \/ RouteNotFound

SpecAuth == Init /\ [][NextAuth]_vars

SpecSession == InitSession /\ [][NextSession]_vars

Spec == InitTasks /\ [][Next]_vars

SpecUpdate == InitUpdate /\ [][NextUpdate]_vars

SpecAll == Init /\ [][NextAll]_vars

\* ================================================================ claims
\* the step answers a request whose handler was suspended at task.save()
SaveStep == BagCardinality(pendingPut') < BagCardinality(pendingPut)

\* C1 - cross-user isolation.  A GET answered 200 lists only tasks whose owner
\* is the caller, so never a task of another user.  A PUT or DELETE that
\* passed the gate as one user and names a stored task of another user is
\* never answered 200 or 403 and leaves the task store unchanged; it is
\* answered 404, unless the PUT body fails validation, which is answered 400
\* before the task is looked up.
C1_Isolation ==
  /\ [](last.op = "GET" /\ last.status = 200 =>
         \A k \in DOMAIN last.body.tasks :
            /\ last.body.tasks[k].user = last.auth
            /\ tasks[last.body.tasks[k]._id].user = last.auth)
  /\ [][(/\ last'.op \in {"PUT", "DELETE"}
          /\ last'.auth # NoUser
          /\ last'.req.id \in DOMAIN tasks
          /\ tasks[last'.req.id].user # last'.auth)
        => /\ last'.status \notin {200, 403}
           /\ \/ last'.status = 404
              \/ /\ last'.op = "PUT"
                 /\ last'.status = 400
                 /\ last'.body.error = "Validation failed"
           /\ tasks' = tasks]_vars

\* bob's PUT on alice's stored task was answered 404
C1_Witness ==
  /\ last.op = "PUT"
  /\ last.status = 404
  /\ last.req.id \in DOMAIN tasks
  /\ tasks[last.req.id].user # last.auth

\* the three conditions of the gate on an Authorization header, now
GateOpen(authHeader) ==
  /\ authHeader.scheme = "Bearer"
  /\ authHeader.token.sig = JWT_SECRET
  /\ clock < authHeader.token.exp
  /\ authHeader.token.userId \in DOMAIN users

C3_TokenWindow ==
  /\ \A t \in tokens :
       t.userId \in DOMAIN users =>
         /\ clock < t.iat + TokenTTL =>
               /\ authenticate(Bearer(t)).ok
               /\ authenticate(Bearer(t)).userId = t.userId
         /\ clock > t.iat + TokenTTL =>
               /\ ~authenticate(Bearer(t)).ok
               /\ authenticate(Bearer(t)).status = 401
  /\ (/\ last.op \in TaskRoutes
      /\ last.req.header.scheme = "Bearer"
      /\ last.req.header.token \in tokens)
     => /\ clock < last.req.header.token.iat + TokenTTL =>
             last.status # 401 /\ last.auth = last.req.header.token.userId
        /\ clock > last.req.header.token.iat + TokenTTL => last.status = 401
  /\ (last.op = "login" /\ last.status = 200) =>
       /\ last.body.token.iat = clock
       /\ last.body.token.sig = JWT_SECRET

\* a well-signed token issued more than 7 days ago was answered 401, while
\* the client holds a younger token of the same user that still passes
C3_Witness ==
  /\ last.op \in TaskRoutes
  /\ last.status = 401
  /\ last.req.header.scheme = "Bearer"
  /\ last.req.header.token \in tokens
  /\ last.req.header.token.sig = JWT_SECRET
  /\ clock > last.req.header.token.iat + TokenTTL
  /\ \E t \in tokens :
       /\ t.userId = last.req.header.token.userId
       /\ authenticate(Bearer(t)).ok

\* some stored user has this (normalized) email
EmailRegistered(email) == \E id \in DOMAIN users : users[id].email = email

\* C4 - anti-enumeration.  A login with a registered email and a password
\* that is not the user's, and a login with an email no user has, are
\* answered alike: status 401 and the body { error: 'Invalid credentials',
\* message: 'Email or password is incorrect' }, identical in every field.
C4_NoEnumeration ==
  \A known, unknown \in LoginBodies :
     (/\ ValidateLogin(known) = << >>
      /\ ValidateLogin(unknown) = << >>
      /\ \E id \in DOMAIN users :
           /\ users[id].email = NormalizeEmail(known.email)
           /\ \A salt \in Salts :
                users[id].password # bcryptHash(known.password, salt)
      /\ ~EmailRegistered(NormalizeEmail(unknown.email)))
     => /\ LoginResponse(known).status = 401
        /\ LoginResponse(unknown).status = 401
        /\ LoginResponse(known).body = LoginResponse(unknown).body
        /\ LoginResponse(known).body =
             [error |-> "Invalid credentials",
              message |-> "Email or password is incorrect"]

\* a login with a registered email and a wrong password was answered 401
\* while some well-formed email is still unregistered
C4_Witness ==
  /\ last.op = "login"
  /\ last.status = 401
  /\ EmailRegistered(NormalizeEmail(last.req.body.email))
  /\ \E e \in RawEmails : IsEmail(e) /\ ~EmailRegistered(NormalizeEmail(e))

\* the step answers a registration whose handler was suspended at user.save()
RegisterSaveStep == BagCardinality(pendingReg') < BagCardinality(pendingReg)

\* C5 - uniqueness under concurrency.  No two stored users ever share an
\* email or a username.  A registration that reaches save() when a stored
\* user already has its email or username - another registration got there
\* first - is answered 400 and stores nothing; otherwise it is answered 201
\* and stores one user.
C5_Unique ==
  /\ [](\A i, j \in DOMAIN users :
          i # j => /\ users[i].email # users[j].email
                   /\ users[i].username # users[j].username)
  /\ [][(last'.op = "register" /\ RegisterSaveStep)
        => IF \E id \in DOMAIN users :
                \/ users[id].email = last'.req.body.email
                \/ users[id].username = last'.req.body.username
             THEN last'.status = 400 /\ users' = users
             ELSE /\ last'.status = 201
                  /\ Cardinality(DOMAIN users') = Cardinality(DOMAIN users) + 1]_vars

\* of two registrations with one email that both passed the lookup, the
\* second to save was answered 400 by the unique index
C5_Witness ==
  /\ last.op = "register"
  /\ last.status = 400
  /\ last.body.error = "Email already exists"
  /\ EmailRegistered(last.req.body.email)

\* C6 - duplicate email.  A well-formed registration whose email a stored
\* user already has, answered by the handler's own lookup, gets 400 with
\* the message 'Email is already registered', whatever the username, and
\* stores no user.
C6_DuplicateEmail ==
  [][(/\ last'.op = "register"
      /\ ~RegisterSaveStep
      /\ ValidateRegister(last'.req.body) = << >>
      /\ EmailRegistered(NormalizeEmail(last'.req.body.email)))
     => /\ last'.status = 400
        /\ last'.body.message = "Email is already registered"
        /\ users' = users]_vars

\* a registration with a registered email was told its username is taken
C6_Witness ==
  /\ last.op = "register"
  /\ last.status = 400
  /\ "message" \in DOMAIN last.body
  /\ last.body.message = "Username is already taken"
  /\ EmailRegistered(NormalizeEmail(last.req.body.email))

ResolvesTo(token, id) ==
  /\ authenticate(Bearer(token)).ok
  /\ authenticate(Bearer(token)).userId = id

\* C8 - register-then-login round trip.  Right after a registration answered
\* 201, and at every later time, a login with the registered email and
\* password is answered 200 with a token that names the registered user's
\* id, and the gate resolves that token to that user.  Every login answered
\* 200 names the user who has the request's email.
C8_RoundTrip ==
  /\ (last.op = "register" /\ last.status = 201)
     => LET r == LoginResponse([email |-> last.req.body.email,
                                password |-> last.req.body.password])
        IN  /\ r.status = 200
            /\ r.body.token.userId = last.body.user.id
            /\ ResolvesTo(r.body.token, last.body.user.id)
  /\ \A id \in DOMAIN users, body \in LoginBodies :
       (/\ users[id].email = NormalizeEmail(body.email)
        /\ \E salt \in Salts : users[id].password = bcryptHash(body.password, salt))
       => /\ LoginResponse(body).status = 200
          /\ LoginResponse(body).body.token.userId = id
          /\ LoginResponse(body).body.user.id = id
          /\ ResolvesTo(LoginResponse(body).body.token, id)
  /\ (last.op = "login" /\ last.status = 200)
     => /\ users[last.body.token.userId].email = NormalizeEmail(last.req.body.email)
        /\ last.body.user.id = last.body.token.userId
        /\ ResolvesTo(last.body.token, last.body.token.userId)

\* the second registered user logged in and got a token naming them
C8_Witness ==
  /\ last.op = "login"
  /\ last.status = 200
  /\ last.body.token.userId = 2
  /\ users[2].email = NormalizeEmail(last.req.body.email)

\* the fields a PUT may set, and those of them a body carries
Settable == {"title", "description", "completed"}
Present(body) == {f \in Settable : body[f] # Undefined}

\* the value the validators and the schema make of a field the body carries
Sent(body, f) ==
  CASE f = "title" -> Trim(body.title)
    [] f = "description" -> Trim(body.description)
    [] f = "completed" -> CastBoolean(body.completed)

\* the document a suspended update holds still agrees with the stored one on
\* every path it will not write
Current(p) ==
  \A f \in Settable \ p.modified : tasks[p.req.id][f] = p.task[f]

\* C9 as the spec states it - selective update.  A PUT answered 200 sets
\* each of title, description, completed the body carries to the body's
\* value and leaves every other field of the task, every other task and every
\* user unchanged; with an empty body it changes nothing and the answer
\* shows the task unchanged.
C9_Selective ==
  [][(last'.op = "PUT" /\ last'.status = 200)
     => /\ \A f \in DOMAIN tasks[last'.req.id] \ Present(last'.req.body) :
             tasks'[last'.req.id][f] = tasks[last'.req.id][f]
        /\ \A f \in Present(last'.req.body) :
             tasks'[last'.req.id][f] = Sent(last'.req.body, f)
        /\ DOMAIN tasks' = DOMAIN tasks
        /\ \A i \in DOMAIN tasks \ {last'.req.id} : tasks'[i] = tasks[i]
        /\ users' = users
        /\ Present(last'.req.body) = {}
           => /\ tasks' = tasks
              /\ last'.body.task = TaskJson(last'.req.id, tasks[last'.req.id])]_vars

\* C9, amended - selective update apart from updatedAt.  A PUT answered 200
\* leaves every field of the task the body does not carry unchanged, except
\* updatedAt, which becomes the time of the save whenever a field's value
\* changes and is otherwise the old one or the time of the save; a field the
\* body carries ends as it was or as the body's value, is the body's value
\* in the answer, and is the body's value in the store when no other write
\* came between the update's read and its save; every other task and every
\* user is unchanged; with an empty body nothing changes, updatedAt
\* included, and the answer is 200.
C9_SelectiveButUpdatedAt ==
  [][(last'.op = "PUT" /\ last'.status = 200)
     => /\ \A f \in DOMAIN tasks[last'.req.id] \ (Present(last'.req.body) \cup {"updatedAt"}) :
             tasks'[last'.req.id][f] = tasks[last'.req.id][f]
        /\ \A f \in Present(last'.req.body) :
             /\ tasks'[last'.req.id][f] \in
                  {tasks[last'.req.id][f], Sent(last'.req.body, f)}
             /\ last'.body.task[f] = Sent(last'.req.body, f)
        /\ \A p \in BagToSet(pendingPut) :
             (pendingPut' = pendingPut (-) SetToBag({p}) /\ p.req = last'.req /\ Current(p))
             => /\ \A f \in Present(last'.req.body) :
                     tasks'[last'.req.id][f] = Sent(last'.req.body, f)
                /\ last'.body.task = TaskJson(last'.req.id, tasks'[last'.req.id])
        /\ tasks'[last'.req.id].updatedAt \in {tasks[last'.req.id].updatedAt, clock}
        /\ (\E f \in Settable : tasks'[last'.req.id][f] # tasks[last'.req.id][f])
           => tasks'[last'.req.id].updatedAt = clock
        /\ DOMAIN tasks' = DOMAIN tasks
        /\ \A i \in DOMAIN tasks \ {last'.req.id} : tasks'[i] = tasks[i]
        /\ users' = users
        /\ Present(last'.req.body) = {} => tasks' = tasks]_vars

\* a PUT carrying a description and no title was answered 200 on a later day:
\* the description is the body's, the title is the one created, updatedAt is
\* the day of the save, and another user's task is stored beside it
C9_Witness ==
  /\ last.op = "PUT"
  /\ last.status = 200
  /\ Present(last.req.body) = {"description"}
  /\ tasks[last.req.id].description = "2 litres"
  /\ tasks[last.req.id].title = "Buy milk"
  /\ tasks[last.req.id].updatedAt = clock
  /\ clock > 0
  /\ \E i \in DOMAIN tasks : tasks[i].user # last.auth

\* the body carries a title and nothing else
TitleAlone(body) ==
  body.title # Undefined /\ body.description = Undefined /\ body.completed = Undefined

\* the task, as listed, is the one the POST created, with the body's title
\* (trimmed by the validator), completed false and description ''
AsCreated(listed, post) ==
  /\ listed._id = post.body.task._id
  /\ listed.title = Trim(post.req.body.title)
  /\ listed.completed = FALSE
  /\ listed.description = ""
  /\ listed.user = post.auth

\* C10 - create-then-read.  Once a POST whose body carries only a title is
\* answered 201, the caller's task list holds the created task with that
\* title, completed false and description ''; and a GET by the same user that
\* follows the POST is answered 200 with that task in its list.
C10_CreateThenRead ==
  /\ []((last.op = "POST" /\ last.status = 201 /\ TitleAlone(last.req.body))
         => \E k \in DOMAIN FindTasks(last.auth) :
               AsCreated(FindTasks(last.auth)[k], last))
  /\ [][(/\ last.op = "POST"
          /\ last.status = 201
          /\ TitleAlone(last.req.body)
          /\ last'.op = "GET"
          /\ last'.auth = last.auth)
        => /\ last'.status = 200
           /\ \E k \in DOMAIN last'.body.tasks :
                AsCreated(last'.body.tasks[k], last)]_vars

\* a GET listed two tasks of the caller, the newer one as a title-only POST
\* creates it
C10_Witness ==
  /\ last.op = "GET"
  /\ last.status = 200
  /\ last.body.count = 2
  /\ last.body.tasks[1].title = "Buy milk"
  /\ last.body.tasks[1].completed = FALSE
  /\ last.body.tasks[1].description = ""
  /\ last.body.tasks[1].user = last.auth

\* C11 as the spec states it - failure envelope.  Every response with a
\* status of 400 or more has a body with success = false and an error, and
\* no field other than success, error and details.
C11_Envelope ==
  last.status >= 400
  => /\ "success" \in DOMAIN last.body
     /\ last.body.success = FALSE
     /\ "error" \in DOMAIN last.body
     /\ DOMAIN last.body \subseteq {"success", "error", "details"}

\* a malformed registration was answered 400 with a body of error and details
\* and no success field
C11_Witness ==
  /\ last.op = "register"
  /\ last.status = 400
  /\ DOMAIN last.body = {"error", "details"}

\* the names of every field a response carries, at every depth of its body
FieldsOf(r) ==
  DOMAIN r.body
  \cup (IF "user" \in DOMAIN r.body THEN DOMAIN r.body.user ELSE {})
  \cup (IF "token" \in DOMAIN r.body THEN DOMAIN r.body.token ELSE {})
  \cup (IF "task" \in DOMAIN r.body THEN DOMAIN r.body.task ELSE {})
  \cup (IF r.op = "POST" /\ r.status = 201 THEN DOMAIN r.body.task.user ELSE {})
  \cup (IF "tasks" \in DOMAIN r.body
          THEN UNION {DOMAIN r.body.tasks[k] : k \in DOMAIN r.body.tasks} ELSE {})

\* C12 - password confidentiality.  No response of register, login, task
\* create, read, update or delete, of the gate, of the unknown-route handler
\* or of the error handler carries a password field, at any depth: not in the
\* body, not in its user, not in its token, not in its task or the task's
\* populated user, not in any listed task.
C12_NoPassword ==
  /\ "password" \notin FieldsOf(last)
  /\ \A id \in DOMAIN users : "password" \in DOMAIN users[id]

\* a login read the user with the stored hash selected, was answered 200, and
\* the projection it returned has the three public fields
C12_Witness ==
  /\ last.op = "login"
  /\ last.status = 200
  /\ users[last.body.user.id].password = bcryptHash(last.req.body.password, "s1")
  /\ DOMAIN last.body.user = {"id", "username", "email"}

\* some stored user has this (trimmed) username
UsernameRegistered(username) ==
  \E id \in DOMAIN users : users[id].username = username

\* C13 as the spec states it - collision precedence.  A well-formed
\* registration whose email and whose username are both those of stored
\* users, of one user or of two, answered by the handler's lookup, gets 400
\* with the email message 'Email is already registered', never the username
\* message.
C13_EmailFirst ==
  [][(/\ last'.op = "register"
      /\ ~RegisterSaveStep
      /\ ValidateRegister(last'.req.body) = << >>
      /\ EmailRegistered(NormalizeEmail(last'.req.body.email))
      /\ UsernameRegistered(Trim(last'.req.body.username)))
     => /\ last'.status = 400
        /\ last'.body.error = "User already exists"
        /\ last'.body.message = "Email is already registered"
        /\ last'.body.message # "Username is already taken"]_vars

\* a registration with one stored user's email and another stored user's
\* username was told the username is taken
C13_Witness ==
  /\ last.op = "register"
  /\ last.status = 400
  /\ last.body.error = "User already exists"
  /\ last.body.message = "Username is already taken"
  /\ \E i, j \in DOMAIN users :
       /\ i # j
       /\ users[i].email = NormalizeEmail(last.req.body.email)
       /\ users[j].username = Trim(last.req.body.username)

\* the step changes the stored task with this id, or removes it
Touches(id) ==
  /\ id \in DOMAIN tasks
  /\ (id \notin DOMAIN tasks' \/ tasks'[id] # tasks[id])

\* C14 as the spec states it - atomic owner-scoped access.  Every update a
\* handler holds between its match { _id, user } and its write was matched
\* on the caller's own task, and until that write no other request's step
\* changes or removes the matched task.
C14_Atomic ==
  /\ [](\A p \in BagToSet(pendingPut) : p.task.user = p.auth)
  /\ [][\A p \in BagToSet(pendingPut) :
          Touches(p.req.id) => pendingPut' = pendingPut (-) SetToBag({p})]_vars

\* a DELETE was answered 200 on a task while a PUT that had matched the same
\* task was still to write it
C14_Witness ==
  /\ last.op = "DELETE"
  /\ last.status = 200
  /\ \E p \in BagToSet(pendingPut) : p.req.id = last.req.id

\* C15 - owner invariant.  Every stored task has one owner, a stored user.
\* A task enters the store only by a POST answered 201, and its owner is the
\* identity the gate verified from that request's token, whatever user field
\* the body carries.  No step changes the owner of a stored task, whatever
\* the body or the path id of a PUT.
C15_Owner ==
  /\ [](\A id \in DOMAIN tasks : tasks[id].user \in DOMAIN users)
  /\ [][/\ \A id \in DOMAIN tasks' \ DOMAIN tasks :
             /\ last'.op = "POST"
             /\ last'.status = 201
             /\ GateOpen(last'.req.header)
             /\ last'.auth = last'.req.header.token.userId
             /\ tasks'[id].user = last'.auth
        /\ \A id \in DOMAIN tasks \cap DOMAIN tasks' :
             tasks'[id].user = tasks[id].user]_vars

\* alice's PUT with a body naming bob as user was answered 200 on a task she
\* created, and the task is still hers
C15_Witness ==
  /\ last.op = "PUT"
  /\ last.status = 200
  /\ "user" \in DOMAIN last.req.body
  /\ last.req.body.user # last.auth
  /\ tasks[last.req.id].user = last.auth
  /\ tasks[last.req.id].completed = TRUE

\* the errors the handlers pass on that match no shape errorHandler knows
UnknownErrors == {StoreUnreachable, DocumentNotFound}

\* C16 as the spec states it - central error handler.  A response the error
\* handler builds for an error of no known shape has status 500 and, when
\* the server does not run in development mode, an error text that is not
\* the error's raw message.
C16_Internal ==
  \A err \in UnknownErrors :
     (NODE_ENV # "development" /\ last.body = errorHandler(err, NODE_ENV).body)
     => /\ last.status = 500
        /\ last.body.error # err.message

\* in production a login that met an unreachable store was answered 500 with
\* the driver's message as error, and no stack
C16_Witness ==
  /\ NODE_ENV = "production"
  /\ last.op = "login"
  /\ last.status = 500
  /\ last.body.error = StoreUnreachable.message
  /\ "stack" \notin DOMAIN last.body

\* C17 - no resurrection.  A DELETE answered 200 removes the task; an id
\* that was handed out and is no longer stored is never stored again; every
\* GET answered 200 lists stored tasks only; and a PUT that read the task
\* before its deletion and saves after it is not answered 200 and stores
\* nothing: a PUT answered 200 is always on a task that is stored.
C17_NoResurrection ==
  [][/\ \A id \in 1..taskSeq : id \notin DOMAIN tasks => id \notin DOMAIN tasks'
     /\ (last'.op = "DELETE" /\ last'.status = 200)
        => last'.req.id \in DOMAIN tasks /\ last'.req.id \notin DOMAIN tasks'
     /\ (last'.op = "GET" /\ last'.status = 200)
        => \A k \in DOMAIN last'.body.tasks :
              last'.body.tasks[k]._id \in DOMAIN tasks'
     /\ (last'.op = "PUT" /\ SaveStep /\ last'.req.id \notin DOMAIN tasks)
        => last'.status # 200 /\ tasks' = tasks
     /\ (last'.op = "PUT" /\ last'.status = 200)
        => last'.req.id \in DOMAIN tasks /\ last'.req.id \in DOMAIN tasks']_vars

\* a PUT that had read a task saved after the task's deletion: it was
\* answered 500 and the task is not stored
C17_Witness ==
  /\ last.op = "PUT"
  /\ last.status = 500
  /\ last.req.id \in 1..taskSeq
  /\ last.req.id \notin DOMAIN tasks
====
